---- MODULE Spec2Model ----
(***************************************************************************)
(* Model of the jscodeshift helper library of class2hooks                  *)
(* (findModule .. isRenderMethod).  A parsed file is a record              *)
(*   [imports |-> sequence of ImportDeclaration nodes in document order,   *)
(*    classes |-> sequence of ClassDeclaration nodes in document order].   *)
(* A Collection of nodes is the sequence of their positions in document    *)
(* order, which is the order Collection.find visits them in.               *)
(***************************************************************************)
EXTENDS Integers, Sequences, FiniteSets

VARIABLES tree, pc, op, result, classDeclarations, calls

vars == <<tree, pc, op, result, classDeclarations, calls>>

\* ---------------------------------------------------------------- bounds
MaxImports == 2
MaxClasses == 2
MaxMembers == 2

\* ------------------------------------------------------- node vocabulary
undefined == "undefined"
TypeError == "TypeError"
None == "-"

Null == [type |-> "null"]
Identifier(n) == [type |-> "Identifier", name |-> n]
Literal(v) == [type |-> "Literal", value |-> v]
MemberExpression(o, p) ==
    [type |-> "MemberExpression", object |-> Identifier(o), property |-> Identifier(p)]

ReactSpellings == {"React", "react", "react-native"}
ParentNames == {"Component", "PureComponent"}

RECURSIVE SeqsUpTo(_, _)
SeqsUpTo(S, n) ==
    IF n = 0 THEN {<<>>}
    ELSE LET shorter == SeqsUpTo(S, n - 1)
         IN  shorter \cup {Append(s, x) : s \in {t \in shorter : Len(t) = n - 1}, x \in S}

\* import React from "..."
DefaultSpecifier ==
    [type |-> "ImportDefaultSpecifier", imported |-> Null, local |-> Identifier("React")]

\* import { imported as local } from "..."
NamedSpecifier(p, l) ==
    [type |-> "ImportSpecifier", imported |-> Identifier(p), local |-> Identifier(l)]

ImportDeclarations(sources, specifierLists) ==
    [type : {"ImportDeclaration"}, source : sources, specifiers : specifierLists]

ClassNames == <<"A", "B", "C", "D">>

ClassDeclaration(id, superClass, body) ==
    [type |-> "ClassDeclaration", id |-> id, superClass |-> superClass, body |-> body]

\* render() {}, constructor() {}, componentDidMount() {}, "render"() {}, render = ...
ClassMembers ==
    {[type |-> "MethodDefinition", kind |-> "method", key |-> Identifier("render")],
     [type |-> "MethodDefinition", kind |-> "constructor", key |-> Identifier("constructor")],
     [type |-> "MethodDefinition", kind |-> "method", key |-> Identifier("componentDidMount")],
     [type |-> "MethodDefinition", kind |-> "method", key |-> Literal("render")],
     [type |-> "ClassProperty", kind |-> "property", key |-> Identifier("render")]}

\* ------------------------------------------------------------ the library

\* Collection.filter: the members of a collection that pass a test.
Filter(collection, Test(_)) == SelectSeq(collection, Test)

\* path.find(ImportDeclaration, {type: "ImportDeclaration", source: {type: "Literal"}}):
\* the positions of the matching import declarations, in document order.
findImportDeclarations(t) ==
    Filter([i \in 1..Len(t.imports) |-> i],
           LAMBDA i : /\ t.imports[i].type = "ImportDeclaration"
                      /\ t.imports[i].source.type = "Literal")

findModule(t, module) ==
    Filter(findImportDeclarations(t),
           LAMBDA i : t.imports[i].source.value = module)

hasModule_AtLeastOne(t, module) == Len(findModule(t, module)) >= 1

hasModule(t, module) == Len(findModule(t, module)) = 1

hasReact_LowerCaseOnly(t) ==
    \/ hasModule(t, "react")
    \/ hasModule(t, "react-native")

hasReact(t) ==
    \/ hasModule(t, "React")
    \/ hasModule(t, "react")
    \/ hasModule(t, "react-native")

\* collection.find(ImportSpecifier, {imported: {type: "Identifier", name}}): the
\* matching specifiers below the declarations of the collection, in document order.
RECURSIVE findImportSpecifiers(_, _, _)
findImportSpecifiers(t, declarations, name) ==
    IF declarations = <<>> THEN <<>>
    ELSE Filter(t.imports[Head(declarations)].specifiers,
                LAMBDA s : /\ s.type = "ImportSpecifier"
                           /\ s.imported.type = "Identifier"
                           /\ s.imported.name = name)
         \o findImportSpecifiers(t, Tail(declarations), name)

\* Collection.at(0): the collection of the first member, if any.
at0(collection) == IF collection = <<>> THEN <<>> ELSE <<Head(collection)>>

findReactComponentNameByParent(t, parentClassName) ==
    LET reactImportDeclaration ==
            Filter(findImportDeclarations(t), LAMBDA i : hasReact(t))
        componentImportSpecifier ==
            at0(findImportSpecifiers(t, reactImportDeclaration, parentClassName))
        paths == componentImportSpecifier
    IN  IF Len(paths) # 0 THEN paths[1].local.name ELSE undefined

\* The selector of findReactES6ClassDeclarationByParent.
superClassSelector(componentImport) ==
    IF componentImport # undefined
    THEN Identifier(componentImport)
    ELSE MemberExpression("React", "Component")

\* path.find(ClassDeclaration, {superClass: selector}).  The selector is matched
\* field by field against the node; a superclass node carries no field beyond the
\* selector's, so the match is equality, and a class without superclass never matches.
findClassDeclarations(t, selector) ==
    Filter([i \in 1..Len(t.classes) |-> i],
           LAMBDA i : t.classes[i].superClass = selector)

findReactES6ClassDeclarationByParent(t, parentClassName) ==
    LET componentImport == findReactComponentNameByParent(t, parentClassName)
    IN  findClassDeclarations(t, superClassSelector(componentImport))

isRenderMethod(node) ==
    /\ node.type = "MethodDefinition"
    /\ node.key.type = "Identifier"
    /\ node.key.name = "render"

\* j(path).find(MethodDefinition)
findMethodDefinitions(class) ==
    Filter(class.body, LAMBDA m : m.type = "MethodDefinition")

hasOnlyRenderMethod(class) ==
    Len(Filter(findMethodDefinitions(class), LAMBDA p : ~isRenderMethod(p))) = 0

\* path.node.id.name; reading .name of a null id throws.
getClassName(class) ==
    IF class.id = Null THEN TypeError ELSE class.id.name

\* ------------------------------------------------------------ parsed files

ResolverSources ==
    {Literal(m) : m \in ReactSpellings \cup {"lodash"}}
        \cup {[type |-> "StringLiteral", value |-> "react"]}

ResolverSpecifierLists ==
    {<<DefaultSpecifier>>,
     <<NamedSpecifier("Component", "Component")>>,
     <<NamedSpecifier("Component", "Foo")>>,
     <<NamedSpecifier("PureComponent", "PureComponent")>>,
     <<DefaultSpecifier, NamedSpecifier("Component", "Bar")>>}

ResolverTrees ==
    [imports : SeqsUpTo(ImportDeclarations(ResolverSources, ResolverSpecifierLists),
                        MaxImports),
     classes : {<<>>}]

LocatorSpecifierLists ==
    {<<DefaultSpecifier>>,
     <<NamedSpecifier("Component", "Component")>>,
     <<NamedSpecifier("Component", "Foo")>>,
     <<NamedSpecifier("PureComponent", "PureComponent")>>}

LocatorImports ==
    ImportDeclarations({Literal("react")}, LocatorSpecifierLists)
        \cup ImportDeclarations({Literal("lodash")},
                                {<<NamedSpecifier("Component", "Foo")>>})

SuperClasses ==
    {Null, Identifier("Component"), Identifier("Foo"), Identifier("PureComponent"),
     MemberExpression("React", "Component"), MemberExpression("React", "PureComponent")}

LocatorTrees ==
    [imports : SeqsUpTo(LocatorImports, MaxImports),
     classes : {[i \in 1..Len(s) |->
                    ClassDeclaration(Identifier(ClassNames[i]), s[i], <<>>)] :
                s \in SeqsUpTo(SuperClasses, MaxClasses)}]

ClassTrees ==
    [imports : {<<>>},
     classes : {<<ClassDeclaration(id, MemberExpression("React", "Component"), body)>> :
                id \in {Null, Identifier("A")},
                body \in SeqsUpTo(ClassMembers, MaxMembers)}]

\* ------------------------------------------------------------------ calls

Idle ==
    /\ pc = "idle"
    /\ op = <<None, None>>
    /\ result = None
    /\ classDeclarations = <<>>
    /\ calls = <<>>

\* A call that runs to its return in one step.
Returns(name, arg, value) ==
    /\ op' = <<name, arg>>
    /\ result' = value
    /\ calls' = IF name = "findReactES6ClassDeclarationByParent" THEN <<arg>> ELSE <<>>
    /\ UNCHANGED <<tree, pc, classDeclarations>>

CallHasModule(module) ==
    /\ pc = "idle"
    /\ Returns("hasModule", module, hasModule(tree, module))

CallHasReact ==
    /\ pc = "idle"
    /\ Returns("hasReact", None, hasReact(tree))

CallFindReactComponentNameByParent(parentClassName) ==
    /\ pc = "idle"
    /\ Returns("findReactComponentNameByParent", parentClassName,
               findReactComponentNameByParent(tree, parentClassName))

CallFindReactES6ClassDeclarationByParent(parentClassName) ==
    /\ pc = "idle"
    /\ Returns("findReactES6ClassDeclarationByParent", parentClassName,
               findReactES6ClassDeclarationByParent(tree, parentClassName))

CallHasOnlyRenderMethod(i) ==
    /\ pc = "idle"
    /\ i \in 1..Len(tree.classes)
    /\ Returns("hasOnlyRenderMethod", i, hasOnlyRenderMethod(tree.classes[i]))

CallGetClassName(i) ==
    /\ pc = "idle"
    /\ i \in 1..Len(tree.classes)
    /\ Returns("getClassName", i, getClassName(tree.classes[i]))

\* findReactES6ClassDeclaration, entered directly or from hasReactES6Class:
\* the "Component" tier (line 128).
TryComponent(name) ==
    /\ pc = "idle"
    /\ op' = <<name, None>>
    /\ classDeclarations' = findReactES6ClassDeclarationByParent(tree, "Component")
    /\ calls' = <<"Component">>
    /\ pc' = "size"
    /\ result' = None
    /\ UNCHANGED tree

\* classDeclarations.size() === 0 (line 132): the "PureComponent" tier.
RetryPureComponent ==
    /\ pc = "size"
    /\ Len(classDeclarations) = 0
    /\ classDeclarations' = findReactES6ClassDeclarationByParent(tree, "PureComponent")
    /\ calls' = Append(calls, "PureComponent")
    /\ pc' = "return"
    /\ UNCHANGED <<tree, op, result>>

KeepComponent_Union ==
    /\ pc = "size"
    /\ Len(classDeclarations) # 0
    /\ classDeclarations' =
           classDeclarations \o findReactES6ClassDeclarationByParent(tree, "PureComponent")
    /\ calls' = Append(calls, "PureComponent")
    /\ pc' = "return"
    /\ UNCHANGED <<tree, op, result>>

KeepComponent ==
    /\ pc = "size"
    /\ Len(classDeclarations) # 0
    /\ pc' = "return"
    /\ UNCHANGED <<tree, op, result, classDeclarations, calls>>

\* return classDeclarations (line 138); hasReactES6Class returns .size() > 0.
Return ==
    /\ pc = "return"
    /\ result' = IF op[1] = "hasReactES6Class"
                 THEN Len(classDeclarations) > 0
                 ELSE classDeclarations
    /\ classDeclarations' = <<>>
    /\ pc' = "idle"
    /\ UNCHANGED <<tree, op, calls>>

\* --------------------------------------------------------- specifications

InitResolver == tree \in ResolverTrees /\ Idle

NextResolver ==
    \/ \E module \in ReactSpellings \cup {"lodash"} : CallHasModule(module)
    \/ CallHasReact
    \/ \E parentClassName \in ParentNames :
           CallFindReactComponentNameByParent(parentClassName)

SpecResolver == InitResolver /\ [][NextResolver]_vars

InitLocator == tree \in LocatorTrees /\ Idle

NextLocator ==
    \/ \E parentClassName \in ParentNames :
           CallFindReactES6ClassDeclarationByParent(parentClassName)
    \/ \E name \in {"findReactES6ClassDeclaration", "hasReactES6Class"} :
           TryComponent(name)
    \/ RetryPureComponent
    \/ KeepComponent
    \/ Return

SpecLocator == InitLocator /\ [][NextLocator]_vars

InitClass == tree \in ClassTrees /\ Idle

NextClass ==
    \/ \E i \in 1..MaxClasses : CallHasOnlyRenderMethod(i)
    \/ \E i \in 1..MaxClasses : CallGetClassName(i)

SpecClass == InitClass /\ [][NextClass]_vars

\* ------------------------------------------------------------------ claims

Returned(name) == pc = "idle" /\ op[1] = name

IsReactSource(source) == source.type = "Literal" /\ source.value \in ReactSpellings

\* The positions of the import declarations whose source is the literal m.
ImportsOf(m) == {i \in DOMAIN tree.imports : tree.imports[i].source = Literal(m)}

\* C1: hasModule(tree, m) is true iff exactly one import declaration of the tree
\* has a literal source equal to m; with none, or with two or more, it is false,
\* and the answer is always a boolean.
C1_hasModuleIffExactlyOne ==
    Returned("hasModule") =>
        /\ result \in BOOLEAN
        /\ result = (Cardinality(ImportsOf(op[2])) = 1)

C1_Witness ==
    /\ Returned("hasModule")
    /\ Cardinality(ImportsOf(op[2])) = 2
    /\ result = FALSE

\* C2 as stated: whenever some import declaration has an accepted framework
\* spelling as its source, hasReact is true, whatever else is imported.
C2_Original ==
    (Returned("hasReact") /\ \E m \in ReactSpellings : ImportsOf(m) # {})
        => result = TRUE

\* C2 amended: whenever some accepted framework spelling is the source of exactly
\* one import declaration, hasReact is true, whatever else is imported.
C2_hasReactWhenImportedOnce ==
    (Returned("hasReact") /\ \E m \in ReactSpellings : Cardinality(ImportsOf(m)) = 1)
        => result = TRUE

C2_Witness ==
    /\ Returned("hasReact")
    /\ Len(tree.imports) = 2
    /\ Cardinality(ImportsOf("React")) = 1
    /\ Cardinality(ImportsOf("lodash")) = 1
    /\ result = TRUE

Range(collection) == {collection[k] : k \in DOMAIN collection}

\* The positions of the import declarations of the framework.
FrameworkImports == {i \in DOMAIN tree.imports : IsReactSource(tree.imports[i].source)}

\* The local names the import declarations of the framework bind to the exported
\* name n.
FrameworkAliases(n) ==
    UNION {{s.local.name : s \in {x \in Range(tree.imports[i].specifiers) :
                                    x.type = "ImportSpecifier" /\ x.imported = Identifier(n)}} :
           i \in FrameworkImports}

\* C3: an identifier returned by findReactComponentNameByParent(tree, n) is the
\* local name of a named-import specifier for n of a framework import declaration,
\* never one of another module, and when the framework declarations have no such
\* specifier the result is undefined.
C3_AliasComesFromFrameworkImport ==
    Returned("findReactComponentNameByParent") =>
        /\ result # undefined => result \in FrameworkAliases(op[2])
        /\ FrameworkAliases(op[2]) = {} => result = undefined

\* The positions of the classes whose superclass is the given node.
ClassesExtending(superClass) ==
    {i \in DOMAIN tree.classes : tree.classes[i].superClass = superClass}

\* C4: when no alias for p is resolved, findReactES6ClassDeclarationByParent(tree, p)
\* returns exactly the classes whose superclass is the member access React.p.
C4_FallbackUsesRequestedParent ==
    (/\ Returned("findReactES6ClassDeclarationByParent")
     /\ findReactComponentNameByParent(tree, op[2]) = undefined)
        => Range(result) = ClassesExtending(MemberExpression("React", op[2]))

\* The class at position i is in the answer of the Base-Class Locator.
Located(i) ==
    \/ Returned("findReactES6ClassDeclaration") /\ i \in Range(result)
    \/ Returned("hasReactES6Class") /\ result = TRUE

LocatorReturned ==
    Returned("findReactES6ClassDeclaration") \/ Returned("hasReactES6Class")

ImportsSpecifier(i, specifier) ==
    \E j \in DOMAIN tree.imports[i].specifiers : tree.imports[i].specifiers[j] = specifier

\* C5: alias transparency.  In a file that imports { Component as L } from the
\* framework a class extending L is located, and in a file that imports React by
\* default from the framework a class extending React.Component is located,
\* whatever the local name L (stated for the files with one framework import
\* declaration, where hasReact holds).
C5_AliasTransparency ==
    (LocatorReturned /\ Cardinality(FrameworkImports) = 1) =>
        \A d \in FrameworkImports, i \in DOMAIN tree.classes :
            /\ \A L \in {"Component", "Foo"} :
                   (/\ ImportsSpecifier(d, NamedSpecifier("Component", L))
                    /\ tree.classes[i].superClass = Identifier(L))
                       => Located(i)
            /\ (/\ ImportsSpecifier(d, DefaultSpecifier)
                /\ tree.classes[i].superClass = MemberExpression("React", "Component"))
                   => Located(i)

\* C7: in a tree with no import declaration of an accepted framework spelling
\* hasReact is false and the Base-Class Locator finds nothing, whatever the
\* classes of the tree extend.
C7_NothingLocatedWithoutFramework ==
    (LocatorReturned /\ FrameworkImports = {}) =>
        /\ ~hasReact(tree)
        /\ \A i \in DOMAIN tree.classes : ~Located(i)

\* C9: when the framework import binds an alias for Component and React.Component
\* is also a superclass in the file, no class extending React.Component is in the
\* result of the Base-Class Locator.
C9_AliasIsAuthoritative ==
    (/\ \/ Returned("findReactES6ClassDeclaration")
        \/ Returned("findReactES6ClassDeclarationByParent") /\ op[2] = "Component"
     /\ hasReact(tree)
     /\ FrameworkAliases("Component") # {})
        => Range(result) \cap ClassesExtending(MemberExpression("React", "Component")) = {}

ComponentTier == findReactES6ClassDeclarationByParent(tree, "Component")
PureComponentTier == findReactES6ClassDeclarationByParent(tree, "PureComponent")

\* C10: findReactES6ClassDeclaration evaluates the "Component" tier first and
\* returns it unchanged when it is non-empty; it evaluates the "PureComponent" tier
\* only when the "Component" tier is empty, and then returns that tier.  The result
\* is one tier, never both, and always a collection.
C10_ComponentTierFirst ==
    op[1] = "findReactES6ClassDeclaration" =>
        /\ pc = "size" => calls = <<"Component">> /\ classDeclarations = ComponentTier
        /\ pc \in {"return", "idle"} =>
               calls = IF ComponentTier = <<>>
                       THEN <<"Component", "PureComponent">>
                       ELSE <<"Component">>
        /\ pc = "idle" =>
               /\ result \in Seq(DOMAIN tree.classes)
               /\ result = IF ComponentTier # <<>> THEN ComponentTier ELSE PureComponentTier

C10_Witness ==
    /\ Returned("findReactES6ClassDeclaration")
    /\ ComponentTier # <<>>
    /\ PureComponentTier # <<>>
    /\ PureComponentTier # ComponentTier
    /\ result = ComponentTier

Methods(class) == {m \in Range(class.body) : m.type = "MethodDefinition"}

\* C6: hasOnlyRenderMethod is true iff the class has at least one method definition
\* and every method definition of it is a render method.
C6_OnlyRenderNeedsRender ==
    Returned("hasOnlyRenderMethod") =>
        result = (/\ Methods(tree.classes[op[2]]) # {}
                  /\ \A m \in Methods(tree.classes[op[2]]) : isRenderMethod(m))

\* C8: getClassName never throws: it returns the declared name of a named class
\* and an absence value for an anonymous one.
C8_getClassNameIsTotal ==
    Returned("getClassName") =>
        /\ result # TypeError
        /\ tree.classes[op[2]].id # Null => result = tree.classes[op[2]].id.name

====
